---------------------------- MODULE Spec2Model ----------------------------
(***************************************************************************)
(* The /trigger relay of sit3-test: src/run.py (the Flask application) and *)
(* src/app/main.py (the FastAPI application).                              *)
(*                                                                         *)
(* One invocation of trigger() reads the configuration, issues one         *)
(* outbound GET, classifies the result, logs one record and answers.  The  *)
(* only suspension point of an invocation is the outbound call, so an      *)
(* invocation is two steps: up to the call, and from its result on.        *)
(*                                                                         *)
(* Text is a sequence of one-character strings, response content a         *)
(* sequence of byte values, a Python dict a function, an optional value    *)
(* None or Some(x).  The timestamp of the request context is left out: no  *)
(* decision of the handler reads it.                                       *)
(***************************************************************************)
EXTENDS Integers, Sequences, FiniteSets, TLC

VARIABLES
    entry,          \* the application that is deployed: "run" or "main"
    env,            \* the process environment: SIT3_URL, SIT3_HEADERS_JSON
    pc,             \* per invocation: "idle", "awaiting", "done"
    request,        \* per invocation: the inbound request
    target_url,     \* per invocation: the local target_url
    extra_headers,  \* per invocation: the local extra_headers
    upstream,       \* per invocation: what client.get produced
    response,       \* per invocation: what trigger() returned (or raised as HTTPException)
    escaped,        \* per invocation: the exception that left trigger() unhandled
    log,            \* the records handed to LOGGER, in order
    outbound        \* the outbound calls issued, in order

vars == <<entry, env, pc, request, target_url, extra_headers, upstream,
          response, escaped, log, outbound>>

-----------------------------------------------------------------------------
(* Bounds and program constants *)

\* Number of concurrent invocations in ConcSpec.
MaxInv == 2

\* truncate_text's default limit.
TRUNCATE_LIMIT == 500

-----------------------------------------------------------------------------
(* Python values *)

None == [some |-> FALSE]
Some(x) == [some |-> TRUE, v |-> x]

Min(S) == CHOOSE x \in S : \A y \in S : x <= y
Max(S) == CHOOSE x \in S : \A y \in S : x >= y

EmptyDict == <<>>

\* str.lower(), character by character.
UpperToLower ==
    [A |-> "a", B |-> "b", C |-> "c", D |-> "d", E |-> "e", F |-> "f",
     G |-> "g", H |-> "h", I |-> "i", J |-> "j", K |-> "k", L |-> "l",
     M |-> "m", N |-> "n", O |-> "o", P |-> "p", Q |-> "q", R |-> "r",
     S |-> "s", T |-> "t", U |-> "u", V |-> "v", W |-> "w", X |-> "x",
     Y |-> "y", Z |-> "z"]

LowerChar(c) == IF c \in DOMAIN UpperToLower THEN UpperToLower[c] ELSE c

Lower(name) == [k \in DOMAIN name |-> LowerChar(name[k])]

\* str.strip(): leading and trailing whitespace removed.
IsSpace(c) == c \in {" ", "\n", "\t"}

Strip(text) ==
    LET keep == {k \in DOMAIN text : ~IsSpace(text[k])}
    IN  IF keep = {} THEN <<>> ELSE SubSeq(text, Min(keep), Max(keep))

\* bytes -> str as response.text does it (errors="replace"): a byte that is
\* no character of the charset becomes the replacement character.
Chr(b) ==
    CASE b = 10  -> "\n"
      [] b = 32  -> " "
      [] b = 46  -> "."
      [] b = 97  -> "a"
      [] b = 98  -> "b"
      [] b = 107 -> "k"
      [] b = 111 -> "o"
      [] OTHER   -> "?"

Decode(content) == [k \in DOMAIN content |-> Chr(content[k])]

\* `not value` for an optional str: None or the empty string.
Falsy(value) == IF value.some THEN value.v = "" ELSE TRUE

\* str(value) of a value json.loads produced.
PyStr(x) ==
    CASE x.type = "str"      -> x.v
      [] x.type = "bool"     -> IF x.v THEN "True" ELSE "False"
      [] x.type = "NoneType" -> "None"
      [] OTHER               -> x.repr

-----------------------------------------------------------------------------
(* HOP_BY_HOP_HEADERS and the header filter *)

HOP_BY_HOP_HEADERS ==
    { <<"c", "o", "n", "n", "e", "c", "t", "i", "o", "n">>,
      <<"k", "e", "e", "p", "-", "a", "l", "i", "v", "e">>,
      <<"p", "r", "o", "x", "y", "-", "a", "u", "t", "h", "e", "n", "t", "i", "c", "a", "t", "e">>,
      <<"p", "r", "o", "x", "y", "-", "a", "u", "t", "h", "o", "r", "i", "z", "a", "t", "i", "o", "n">>,
      <<"t", "e">>,
      <<"t", "r", "a", "i", "l", "e", "r", "s">>,
      <<"t", "r", "a", "n", "s", "f", "e", "r", "-", "e", "n", "c", "o", "d", "i", "n", "g">>,
      <<"u", "p", "g", "r", "a", "d", "e">>,
      <<"c", "o", "n", "t", "e", "n", "t", "-", "l", "e", "n", "g", "t", "h">> }

\* filtered_headers with a slip: the membership test without key.lower().
filtered_headers_case_sensitive(headers) ==
    [key \in {k \in DOMAIN headers : k \notin HOP_BY_HOP_HEADERS} |-> headers[key]]

\* {key: value for key, value in headers.items()
\*  if key.lower() not in HOP_BY_HOP_HEADERS}
filtered_headers(headers) ==
    [key \in {k \in DOMAIN headers : Lower(k) \notin HOP_BY_HOP_HEADERS} |-> headers[key]]

\* {str(key): str(value) ...}: keys and values of a header mapping are str
\* already, and str() of a str is that str.
serialize_headers(headers) == [key \in DOMAIN headers |-> headers[key]]

-----------------------------------------------------------------------------
(* truncate_text, get_upstream_body, build_upstream_error_message *)

Ellipsis == <<".", ".", ".">>

truncate_text(value) ==
    IF Len(value) <= TRUNCATE_LIMIT
    THEN value
    ELSE SubSeq(value, 1, TRUNCATE_LIMIT) \o Ellipsis

\* response.text; the fallbacks decode the same content.
get_upstream_body(resp) == Decode(resp.content)

\* The message is kept as its parts: the prefix, the status, and, for a
\* non-empty stripped body, ": " and the truncated body.
build_upstream_error_message(resp) ==
    LET body_text == Strip(get_upstream_body(resp))
    IN  [prefix |-> "Upstream responded with status ",
         status |-> resp.status_code,
         suffix |-> IF body_text # <<>> THEN Some(truncate_text(body_text)) ELSE None]

-----------------------------------------------------------------------------
(* load_optional_headers *)

\* json.loads on the configuration values the model draws SIT3_HEADERS_JSON
\* from: a JSONDecodeError, or the parsed value.  A parsed value carries its
\* Python type; a number or a container also carries its repr, which is what
\* str() returns for it.
JsonLoads(raw) ==
    CASE raw = "{bad" ->
            [ok |-> FALSE]
      [] raw = "\"abc\"" ->
            [ok |-> TRUE, value |-> [type |-> "str", v |-> "abc"]]
      [] raw = "[1, 2]" ->
            [ok |-> TRUE, value |-> [type |-> "list", repr |-> "[1, 2]"]]
      [] raw = "42" ->
            [ok |-> TRUE, value |-> [type |-> "int", repr |-> "42"]]
      [] raw = "null" ->
            [ok |-> TRUE, value |-> [type |-> "NoneType"]]
      [] raw = "{}" ->
            [ok |-> TRUE, value |-> [type |-> "dict", items |-> EmptyDict]]
      [] raw = "{\"X-Foo\": \"bar\"}" ->
            [ok |-> TRUE, value |-> [type |-> "dict", items |->
                [k \in {"X-Foo"} |-> [type |-> "str", v |-> "bar"]]]]
      [] raw = "{\"X-Num\": 1, \"X-Flag\": true, \"X-Null\": null}" ->
            [ok |-> TRUE, value |-> [type |-> "dict", items |->
                [k \in {"X-Num", "X-Flag", "X-Null"} |->
                    CASE k = "X-Num"  -> [type |-> "int", repr |-> "1"]
                      [] k = "X-Flag" -> [type |-> "bool", v |-> TRUE]
                      [] OTHER        -> [type |-> "NoneType"]]]]
      [] raw = "{\"X-Nested\": {\"b\": 1}}" ->
            [ok |-> TRUE, value |-> [type |-> "dict", items |->
                [k \in {"X-Nested"} |-> [type |-> "dict", repr |-> "{'b': 1}"]]]]
      [] raw = "{\"X-List\": [1, 2], \"X-Foo\": \"bar\"}" ->
            [ok |-> TRUE, value |-> [type |-> "dict", items |->
                [k \in {"X-List", "X-Foo"} |->
                    IF k = "X-List"
                    THEN [type |-> "list", repr |-> "[1, 2]"]
                    ELSE [type |-> "str", v |-> "bar"]]]]
      [] OTHER ->
            [ok |-> FALSE]

\* load_optional_headers with a slip: a value that does not load is taken
\* for no extra headers instead of raising.
load_optional_headers_lenient(raw_headers) ==
    IF Falsy(raw_headers)
    THEN [raised |-> FALSE, value |-> EmptyDict]
    ELSE LET parsed == JsonLoads(raw_headers.v)
         IN  IF parsed.ok /\ parsed.value.type = "dict"
             THEN [raised |-> FALSE,
                   value |-> [key \in DOMAIN parsed.value.items |->
                                 PyStr(parsed.value.items[key])]]
             ELSE [raised |-> FALSE, value |-> EmptyDict]

\* raw_headers is os.getenv("SIT3_HEADERS_JSON").  The result is the dict, or
\* the ValueError with its message.
load_optional_headers(raw_headers) ==
    IF Falsy(raw_headers)
    THEN [raised |-> FALSE, value |-> EmptyDict]
    ELSE LET parsed == JsonLoads(raw_headers.v)
         IN  IF ~parsed.ok
             THEN [raised |-> TRUE, error_type |-> "ValueError",
                   message |-> "SIT3_HEADERS_JSON must be valid JSON"]
             ELSE IF parsed.value.type # "dict"
             THEN [raised |-> TRUE, error_type |-> "ValueError",
                   message |-> "SIT3_HEADERS_JSON must be a JSON object"]
             ELSE [raised |-> FALSE,
                   value |-> [key \in DOMAIN parsed.value.items |->
                                 PyStr(parsed.value.items[key])]]

-----------------------------------------------------------------------------
(* The inbound request and build_request_context *)

\* The names of a query, a sequence of <<name, value>> pairs.
QueryNames(query) == {query[k][1] : k \in DOMAIN query}

\* werkzeug's MultiDict.to_dict(flat=True): the first value of each name.
to_dict_flat(query) ==
    [name \in QueryNames(query) |->
        query[Min({k \in DOMAIN query : query[k][1] = name})][2]]

\* dict(request.query_params) and request.query_params.items() of
\* starlette's QueryParams: the last value of each name.
query_params_dict(query) ==
    [name \in QueryNames(query) |->
        query[Max({k \in DOMAIN query : query[k][1] = name})][2]]

\* The query parameters as the deployed application flattens them, for the
\* request context and for the outbound call alike.
flat_query(app, query) ==
    IF app = "run" THEN to_dict_flat(query) ELSE query_params_dict(query)

build_request_context(app, req) ==
    [method          |-> req.method,
     path            |-> req.path,
     query_params    |-> flat_query(app, req.query),
     request_headers |-> serialize_headers(req.headers)]

-----------------------------------------------------------------------------
(* The log records *)

\* log_json_event with a slip: a failed write of the sink is raised to the
\* caller.
log_json_event_raising(payload, level, sink_ok) ==
    [level |-> level, payload |-> payload, written |-> sink_ok, raised |-> ~sink_ok]

\* logger.log(level, json.dumps(payload, default=str)).  The payload's keys
\* are str and default=str covers every value, so the serialization yields
\* the JSON object of the payload; a handler whose write fails reports the
\* failure through logging's handleError and logger.log returns normally,
\* the record lost.
log_json_event(payload, level, sink_ok) ==
    [level |-> level, payload |-> payload, written |-> sink_ok, raised |-> FALSE]

\* upstream_headers and upstream_body are None in src/app/main.py, whose
\* log_trigger_error has neither parameter.
log_trigger_error(request_context, url, status_code, error_type, error_message, upstream_headers, upstream_body) ==
    request_context
    @@ [event         |-> "trigger_error",
        target_url    |-> url,
        status_code   |-> status_code,
        error_type    |-> error_type,
        error_message |-> error_message]
    @@ (IF upstream_headers.some
        THEN [upstream_headers |-> upstream_headers.v] ELSE <<>>)
    @@ (IF upstream_body.some
        THEN [upstream_body |-> upstream_body.v] ELSE <<>>)

\* upstream_body is None in src/app/main.py, whose log_trigger_success has
\* no such parameter.
log_trigger_success(request_context, url, upstream_response, upstream_body) ==
    request_context
    @@ [event            |-> "trigger_request",
        target_url       |-> url,
        upstream_status  |-> upstream_response.status_code,
        upstream_headers |-> serialize_headers(upstream_response.headers)]
    @@ (IF upstream_body.some
        THEN [upstream_body |-> upstream_body.v] ELSE <<>>)

-----------------------------------------------------------------------------
(* The environment, the callers and the upstream the model draws from *)

\* SIT3_URL: unset, empty, a URL the upstream answers at, a URL without a
\* scheme, a URL whose port is no number.
UsableUrl == "http://upstream.example/hook"
SchemelessUrl == "upstream.example/hook"
MalformedUrl == "http://upstream.example:port/hook"

UrlValues == {None, Some(""), Some(UsableUrl), Some(SchemelessUrl), Some(MalformedUrl)}

ConcUrlValues == {None, Some(UsableUrl), Some(MalformedUrl)}

\* SIT3_HEADERS_JSON.
HeadersJsonValues ==
    {None, Some("")}
    \cup {Some(raw) : raw \in
            {"{bad", "\"abc\"", "[1, 2]", "42", "null", "{}",
             "{\"X-Foo\": \"bar\"}",
             "{\"X-Num\": 1, \"X-Flag\": true, \"X-Null\": null}",
             "{\"X-Nested\": {\"b\": 1}}",
             "{\"X-List\": [1, 2], \"X-Foo\": \"bar\"}"}}

ConcHeadersJsonValues == {None, Some("{bad"), Some("{\"X-Foo\": \"bar\"}")}

\* Inbound requests: GET /trigger with a query (a sequence of <<name, value>>
\* pairs, a name possibly repeated) and request headers.
Queries ==
    { <<>>,
      << <<"a", "1">> >>,
      << <<"a", "1">>, <<"b", "2">> >>,
      << <<"a", "1">>, <<"a", "2">> >> }

InboundHeaders == {EmptyDict, [k \in {"Authorization"} |-> "Bearer token"]}

Requests ==
    {[method |-> "GET", path |-> "/trigger", query |-> q, headers |-> h] :
        q \in Queries, h \in InboundHeaders}

ConcRequests ==
    {[method |-> "GET", path |-> "/trigger", query |-> q, headers |-> EmptyDict] :
        q \in { <<>>, << <<"a", "1">>, <<"a", "2">> >> }}

\* Upstream response headers, as upstream_response.headers.items() yields
\* them; the handler lower-cases each key itself, so keys come in any case.
UpstreamHeaders ==
    { EmptyDict,
      (<<"C", "o", "n", "t", "e", "n", "t", "-", "T", "y", "p", "e">> :> "text/plain")
        @@ (<<"C", "o", "n", "t", "e", "n", "t", "-", "L", "e", "n", "g", "t", "h">> :> "42")
        @@ (<<"T", "r", "a", "n", "s", "f", "e", "r", "-", "E", "n", "c", "o", "d", "i", "n", "g">> :> "chunked"),
      (<<"c", "o", "n", "n", "e", "c", "t", "i", "o", "n">> :> "keep-alive")
        @@ (<<"k", "e", "e", "p", "-", "a", "l", "i", "v", "e">> :> "timeout=5")
        @@ (<<"t", "e">> :> "trailers")
        @@ (<<"u", "p", "g", "r", "a", "d", "e">> :> "h2c")
        @@ (<<"x", "-", "f", "o", "o">> :> "bar"),
      (<<"T", "E">> :> "trailers")
        @@ (<<"P", "r", "o", "x", "y", "-", "A", "u", "t", "h", "e", "n", "t", "i", "c", "a", "t", "e">> :> "Basic")
        @@ (<<"p", "r", "o", "x", "y", "-", "a", "u", "t", "h", "o", "r", "i", "z", "a", "t", "i", "o", "n">> :> "Basic Zm9v")
        @@ (<<"T", "r", "a", "i", "l", "e", "r", "s">> :> "Expires")
        @@ (<<"S", "e", "t", "-", "C", "o", "o", "k", "i", "e">> :> "id=1")
        @@ (<<"X", "-", "F", "o", "o">> :> "Bar") }

\* n bytes "baba...".
Bytes(n) == [k \in 1..n |-> 97 + (k % 2)]

\* Upstream response bodies: empty, short, not text, padded with whitespace,
\* only whitespace, and of TRUNCATE_LIMIT bytes, one more, and a hundred more.
Contents ==
    { <<>>,
      <<111, 107>>,
      <<111, 200, 107>>,
      <<32, 97, 32, 98, 10>>,
      <<32, 10>>,
      Bytes(TRUNCATE_LIMIT),
      Bytes(TRUNCATE_LIMIT + 1),
      <<32>> \o Bytes(TRUNCATE_LIMIT + 100) }

StatusCodes == {200, 399, 400, 404}

UpstreamResponses ==
    {[kind |-> "response", status_code |-> s, headers |-> h, content |-> c] :
        s \in StatusCodes, h \in UpstreamHeaders, c \in Contents}

ConcUpstreamResponses ==
    {[kind |-> "response", status_code |-> s, headers |-> EmptyDict, content |-> <<111, 107>>] :
        s \in {200, 404}}

\* httpx's exceptions: the classes under httpx.HTTPError, which the handler's
\* except clause catches, and InvalidURL, which derives from Exception.
HTTPErrorClasses ==
    {"ConnectError", "ConnectTimeout", "ReadTimeout", "UnsupportedProtocol"}

IsHTTPError(cls) == cls \in HTTPErrorClasses

TransportErrors ==
    {[kind |-> "exception", cls |-> "ConnectError", message |-> "All connection attempts failed"],
     [kind |-> "exception", cls |-> "ReadTimeout", message |-> "The read operation timed out"]}

\* What client.get(target_url, ...) produces: the upstream's response or a
\* transport error for a URL the client can use, and for the others the
\* exception the client raises for that URL.
client_get(url, responses) ==
    CASE url = UsableUrl ->
            responses \cup TransportErrors
      [] url = MalformedUrl ->
            {[kind |-> "exception", cls |-> "InvalidURL", message |-> "Invalid port: 'port'"]}
      [] OTHER ->
            {[kind |-> "exception", cls |-> "UnsupportedProtocol",
              message |-> "Request URL is missing an 'http://' or 'https://' protocol."]}

-----------------------------------------------------------------------------
(* trigger() *)

\* `extra_headers or None`.
OrNone(d) == IF DOMAIN d = {} THEN None ELSE Some(d)

\* jsonify(detail=...), status in src/run.py; HTTPException(status_code,
\* detail), which FastAPI answers as {"detail": ...}, in src/app/main.py.
ErrorResponse(status, detail) ==
    [status  |-> status,
     headers |-> EmptyDict,
     body    |-> [kind |-> "json", detail |-> detail]]

\* Response(upstream_response.content, status=..., headers=filtered_headers).
RelayResponse(upstream_response) ==
    [status  |-> upstream_response.status_code,
     headers |-> filtered_headers(upstream_response.headers),
     body    |-> [kind |-> "raw", content |-> upstream_response.content]]

\* request_context_of with a slip: the context is that of the invocation
\* that logged last, as a context kept in a module-level variable would be.
request_context_of_shared(i) ==
    IF log = <<>>
    THEN build_request_context(entry, request[i].v)
    ELSE build_request_context(entry, request[log[Len(log)].inv].v)

\* The local request_context of invocation i, built on entry from its request.
request_context_of(i) == build_request_context(entry, request[i].v)

\* The end of a path: the record is logged, then the response is returned.
\* An exception raised by the logging call leaves the handler in its place.
LogThenReturn(i, event, resp) ==
    /\ log' = Append(log, [inv     |-> i,
                           level   |-> event.level,
                           payload |-> event.payload,
                           written |-> event.written])
    /\ IF event.raised
       THEN /\ escaped' = [escaped EXCEPT ![i] = Some("OSError")]
            /\ UNCHANGED response
       ELSE /\ response' = [response EXCEPT ![i] = Some(resp)]
            /\ UNCHANGED escaped
    /\ pc' = [pc EXCEPT ![i] = "done"]

\* SIT3_URL is not set: logged, answered with 500.
ConfigMissing(i, requests) ==
    /\ pc[i] = "idle"
    /\ Falsy(env.SIT3_URL)
    /\ \E req \in requests, sink_ok \in BOOLEAN :
          LET request_context == build_request_context(entry, req)
              error_type == IF entry = "run" THEN "RuntimeError" ELSE "HTTPException"
              message == "SIT3_URL is not set"
          IN  /\ request' = [request EXCEPT ![i] = Some(req)]
              /\ target_url' = [target_url EXCEPT ![i] = env.SIT3_URL]
              /\ LogThenReturn(i,
                    log_json_event(
                        log_trigger_error(request_context, env.SIT3_URL, 500,
                                          error_type, message, None, None),
                        "ERROR", sink_ok),
                    ErrorResponse(500, message))
    /\ UNCHANGED <<entry, env, extra_headers, upstream, outbound>>

\* load_optional_headers raises ValueError: logged, answered with 500.
HeadersInvalid(i, requests) ==
    /\ pc[i] = "idle"
    /\ ~Falsy(env.SIT3_URL)
    /\ load_optional_headers(env.SIT3_HEADERS_JSON).raised
    /\ \E req \in requests, sink_ok \in BOOLEAN :
          LET request_context == build_request_context(entry, req)
              exc == load_optional_headers(env.SIT3_HEADERS_JSON)
          IN  /\ request' = [request EXCEPT ![i] = Some(req)]
              /\ target_url' = [target_url EXCEPT ![i] = env.SIT3_URL]
              /\ LogThenReturn(i,
                    log_json_event(
                        log_trigger_error(request_context, env.SIT3_URL, 500,
                                          exc.error_type, exc.message, None, None),
                        "ERROR", sink_ok),
                    ErrorResponse(500, exc.message))
    /\ UNCHANGED <<entry, env, extra_headers, upstream, outbound>>

\* Both checks pass: client.get(target_url, params=..., headers=extra_headers
\* or None) is issued and the invocation waits for its result.
IssueCall(i, requests) ==
    /\ pc[i] = "idle"
    /\ ~Falsy(env.SIT3_URL)
    /\ ~load_optional_headers(env.SIT3_HEADERS_JSON).raised
    /\ \E req \in requests :
          LET loaded == load_optional_headers(env.SIT3_HEADERS_JSON).value
          IN  /\ request' = [request EXCEPT ![i] = Some(req)]
              /\ extra_headers' = [extra_headers EXCEPT ![i] = Some(loaded)]
              /\ outbound' = Append(outbound,
                    [inv     |-> i,
                     method  |-> "GET",
                     url     |-> env.SIT3_URL.v,
                     params  |-> flat_query(entry, req.query),
                     headers |-> OrNone(loaded)])
    /\ target_url' = [target_url EXCEPT ![i] = env.SIT3_URL]
    /\ pc' = [pc EXCEPT ![i] = "awaiting"]
    /\ UNCHANGED <<entry, env, upstream, response, escaped, log>>

\* client.get raises an httpx.HTTPError: logged, answered with 502.
TransportFailure(i, responses) ==
    /\ pc[i] = "awaiting"
    /\ \E exc \in client_get(target_url[i].v, responses), sink_ok \in BOOLEAN :
          /\ exc.kind = "exception"
          /\ IsHTTPError(exc.cls)
          /\ upstream' = [upstream EXCEPT ![i] = Some(exc)]
          /\ LogThenReturn(i,
                log_json_event(
                    log_trigger_error(request_context_of(i), target_url[i], 502,
                                      exc.cls, exc.message, None, None),
                    "ERROR", sink_ok),
                ErrorResponse(502, "Upstream request failed"))
    /\ UNCHANGED <<entry, env, request, target_url, extra_headers, outbound>>

\* client.get raises an exception that is no httpx.HTTPError: no except
\* clause of trigger() matches and the exception leaves the handler.
ExceptionEscapes(i, responses) ==
    /\ pc[i] = "awaiting"
    /\ \E exc \in client_get(target_url[i].v, responses) :
          /\ exc.kind = "exception"
          /\ ~IsHTTPError(exc.cls)
          /\ upstream' = [upstream EXCEPT ![i] = Some(exc)]
          /\ escaped' = [escaped EXCEPT ![i] = Some(exc.cls)]
    /\ pc' = [pc EXCEPT ![i] = "done"]
    /\ UNCHANGED <<entry, env, request, target_url, extra_headers, response,
                   log, outbound>>

\* The record trigger() logs for an upstream response.  src/run.py logs a
\* status >= 400 as an error, with the upstream headers and body, and any
\* other status as a success with the body; src/app/main.py logs every
\* response as a success, without the body.
UpstreamEvent(i, upstream_response, sink_ok) ==
    LET upstream_body == get_upstream_body(upstream_response)
        upstream_headers == serialize_headers(upstream_response.headers)
    IN  IF entry = "run"
        THEN IF upstream_response.status_code >= 400
             THEN log_json_event(
                      log_trigger_error(request_context_of(i), target_url[i],
                                        upstream_response.status_code,
                                        "RuntimeError",
                                        build_upstream_error_message(upstream_response),
                                        Some(upstream_headers), Some(upstream_body)),
                      "ERROR", sink_ok)
             ELSE log_json_event(
                      log_trigger_success(request_context_of(i), target_url[i].v,
                                          upstream_response, Some(upstream_body)),
                      "INFO", sink_ok)
        ELSE log_json_event(
                 log_trigger_success(request_context_of(i), target_url[i].v,
                                     upstream_response, None),
                 "INFO", sink_ok)

\* client.get returns a response: its headers are filtered, the outcome is
\* logged and the upstream's status and content are returned.
UpstreamAnswered(i, responses) ==
    /\ pc[i] = "awaiting"
    /\ \E upstream_response \in client_get(target_url[i].v, responses),
          sink_ok \in BOOLEAN :
          /\ upstream_response.kind = "response"
          /\ upstream' = [upstream EXCEPT ![i] = Some(upstream_response)]
          /\ LogThenReturn(i,
                UpstreamEvent(i, upstream_response, sink_ok),
                RelayResponse(upstream_response))
    /\ UNCHANGED <<entry, env, request, target_url, extra_headers, outbound>>

-----------------------------------------------------------------------------
(* Specifications *)

Init(invocations, urls, headers_json) ==
    /\ entry \in {"run", "main"}
    /\ env \in [SIT3_URL : urls, SIT3_HEADERS_JSON : headers_json]
    /\ pc = [i \in invocations |-> "idle"]
    /\ request = [i \in invocations |-> None]
    /\ target_url = [i \in invocations |-> None]
    /\ extra_headers = [i \in invocations |-> None]
    /\ upstream = [i \in invocations |-> None]
    /\ response = [i \in invocations |-> None]
    /\ escaped = [i \in invocations |-> None]
    /\ log = <<>>
    /\ outbound = <<>>

Next(invocations, requests, responses) ==
    \E i \in invocations :
        \/ ConfigMissing(i, requests)
        \/ HeadersInvalid(i, requests)
        \/ IssueCall(i, requests)
        \/ TransportFailure(i, responses)
        \/ ExceptionEscapes(i, responses)
        \/ UpstreamAnswered(i, responses)

\* One invocation, every environment, request and upstream outcome.
Spec ==
    Init({1}, UrlValues, HeadersJsonValues)
    /\ [][Next({1}, Requests, UpstreamResponses)]_vars

\* MaxInv invocations interleaved, over fewer environments and outcomes.
ConcSpec ==
    Init(1..MaxInv, ConcUrlValues, ConcHeadersJsonValues)
    /\ [][Next(1..MaxInv, ConcRequests, ConcUpstreamResponses)]_vars

-----------------------------------------------------------------------------
(* What the claims speak of *)

Invocations == DOMAIN pc

Done(i) == pc[i] = "done"

\* The records invocation i logged, and the outbound calls it issued.
LogOf(i) == SelectSeq(log, LAMBDA e : e.inv = i)
CallsOf(i) == SelectSeq(outbound, LAMBDA c : c.inv = i)

GotResponse(i) ==
    IF upstream[i].some THEN upstream[i].v.kind = "response" ELSE FALSE

GotException(i) ==
    IF upstream[i].some THEN upstream[i].v.kind = "exception" ELSE FALSE

\* SIT3_HEADERS_JSON is set to a value that is no JSON, or no JSON object.
HeadersFailToLoad(raw) ==
    IF Falsy(raw) THEN FALSE
    ELSE IF ~JsonLoads(raw.v).ok THEN TRUE
    ELSE JsonLoads(raw.v).value.type # "dict"

\* A parsed JSON value is a flat object: an object none of whose values is an
\* object or an array.
IsFlatObject(value) ==
    IF value.type # "dict" THEN FALSE
    ELSE \A k \in DOMAIN value.items : value.items[k].type \notin {"dict", "list"}

\* The nine header names the specification lists.
ListedHopByHop ==
    { <<"c", "o", "n", "n", "e", "c", "t", "i", "o", "n">>,
      <<"k", "e", "e", "p", "-", "a", "l", "i", "v", "e">>,
      <<"p", "r", "o", "x", "y", "-", "a", "u", "t", "h", "e", "n", "t", "i", "c", "a", "t", "e">>,
      <<"p", "r", "o", "x", "y", "-", "a", "u", "t", "h", "o", "r", "i", "z", "a", "t", "i", "o", "n">>,
      <<"t", "e">>,
      <<"t", "r", "a", "i", "l", "e", "r", "s">>,
      <<"t", "r", "a", "n", "s", "f", "e", "r", "-", "e", "n", "c", "o", "d", "i", "n", "g">>,
      <<"u", "p", "g", "r", "a", "d", "e">>,
      <<"c", "o", "n", "t", "e", "n", "t", "-", "l", "e", "n", "g", "t", "h">> }

-----------------------------------------------------------------------------
(* C1 *)

\* C1: whenever an invocation received an upstream response, on either
\* application: a status >= 400 is logged as a trigger_error record at error
\* severity with status_code the upstream status, a status < 400 as a
\* trigger_request record at informational severity, and the status returned
\* to the caller is the upstream status.
C1_UpstreamStatusLoggedByClass ==
    \A i \in Invocations :
        (Done(i) /\ GotResponse(i)) =>
            LET status == upstream[i].v.status_code
                recs == LogOf(i)
            IN  /\ Len(recs) = 1
                /\ IF status >= 400
                   THEN /\ recs[1].payload.event = "trigger_error"
                        /\ recs[1].level = "ERROR"
                        /\ recs[1].payload.status_code = status
                   ELSE /\ recs[1].payload.event = "trigger_request"
                        /\ recs[1].level = "INFO"
                /\ response[i].some
                /\ response[i].v.status = status

-----------------------------------------------------------------------------
(* C2 *)

\* C2: an invocation that found SIT3_URL missing or empty, or whose
\* SIT3_HEADERS_JSON fails to load, answers 500 with the error message, has
\* issued no outbound call, and has logged exactly one trigger_error record
\* with status_code 500.
C2_ConfigErrorAnswers500 ==
    \A i \in Invocations :
        (pc[i] # "idle"
         /\ (Falsy(env.SIT3_URL) \/ HeadersFailToLoad(env.SIT3_HEADERS_JSON))) =>
            LET recs == LogOf(i)
            IN  /\ Done(i)
                /\ CallsOf(i) = <<>>
                /\ Len(recs) = 1
                /\ recs[1].payload.event = "trigger_error"
                /\ recs[1].payload.status_code = 500
                /\ response[i].some
                /\ response[i].v.status = 500
                /\ response[i].v.body.kind = "json"
                /\ response[i].v.body.detail = recs[1].payload.error_message
                /\ response[i].v.body.detail =
                      IF Falsy(env.SIT3_URL)
                      THEN "SIT3_URL is not set"
                      ELSE IF JsonLoads(env.SIT3_HEADERS_JSON.v).ok
                      THEN "SIT3_HEADERS_JSON must be a JSON object"
                      ELSE "SIT3_HEADERS_JSON must be valid JSON"

\* An invocation with a usable SIT3_URL and a SIT3_HEADERS_JSON that parses
\* to a JSON array has been answered.
C2_Witness ==
    \E i \in Invocations :
        /\ Done(i)
        /\ ~Falsy(env.SIT3_URL)
        /\ env.SIT3_HEADERS_JSON = Some("[1, 2]")
        /\ response[i].some

-----------------------------------------------------------------------------
(* C3 *)

\* C3: an invocation whose outbound call raised instead of returning a
\* response answers 502 with "Upstream request failed" and has logged exactly
\* one trigger_error record with status_code 502, the configured target_url
\* and the error's description; no such exception leaves the handler.
C3_TransportFailureAnswers502 ==
    \A i \in Invocations :
        (Done(i) /\ GotException(i)) =>
            LET recs == LogOf(i)
            IN  /\ ~escaped[i].some
                /\ response[i] = Some(ErrorResponse(502, "Upstream request failed"))
                /\ Len(recs) = 1
                /\ recs[1].payload.event = "trigger_error"
                /\ recs[1].payload.status_code = 502
                /\ recs[1].payload.target_url = env.SIT3_URL
                /\ recs[1].payload.error_message = upstream[i].v.message

-----------------------------------------------------------------------------
(* C4 *)

\* C4: in src/run.py, for an upstream response with status >= 400 whose body
\* text is longer than 500 characters, the logged upstream_body is the first
\* 500 characters followed by "...", and the caller gets the upstream status
\* and the full content.
C4_LoggedBodyTruncated ==
    \A i \in Invocations :
        (entry = "run" /\ Done(i) /\ GotResponse(i)) =>
            LET text == Decode(upstream[i].v.content)
                recs == LogOf(i)
            IN  (upstream[i].v.status_code >= 400 /\ Len(text) > 500) =>
                    /\ Len(recs) = 1
                    /\ "upstream_body" \in DOMAIN recs[1].payload
                    /\ recs[1].payload.upstream_body
                          = SubSeq(text, 1, 500) \o <<".", ".", ".">>
                    /\ response[i].some
                    /\ response[i].v.status = upstream[i].v.status_code
                    /\ response[i].v.body.content = upstream[i].v.content

-----------------------------------------------------------------------------
(* C5 *)

-----------------------------------------------------------------------------
(* C6 *)

\* The loader failed in invocation i: no header set was produced and the
\* invocation ended with a logged ValueError.
LoaderFailed(i) ==
    /\ ~extra_headers[i].some
    /\ Done(i)
    /\ Len(LogOf(i)) = 1
    /\ LogOf(i)[1].payload.error_type = "ValueError"

\* C6: load_optional_headers returns the empty header set for an absent or
\* empty value, fails for a value that is no JSON, fails for a value that is
\* not a flat JSON object, and otherwise returns the object's entries with
\* each value coerced to str.
C6_LoaderContract ==
    \A i \in Invocations :
        (pc[i] # "idle" /\ ~Falsy(env.SIT3_URL)) =>
            LET raw == env.SIT3_HEADERS_JSON
            IN  IF Falsy(raw)
                THEN /\ extra_headers[i].some
                     /\ DOMAIN extra_headers[i].v = {}
                ELSE IF ~JsonLoads(raw.v).ok
                THEN LoaderFailed(i)
                ELSE IF ~IsFlatObject(JsonLoads(raw.v).value)
                THEN LoaderFailed(i)
                ELSE LET items == JsonLoads(raw.v).value.items
                     IN  /\ extra_headers[i].some
                         /\ extra_headers[i].v = [k \in DOMAIN items |-> PyStr(items[k])]

-----------------------------------------------------------------------------
(* C7 *)

\* The <<name, value>> pairs of a params dict.
ParamPairs(params) == {<<name, params[name]>> : name \in DOMAIN params}

\* C7: every outbound call carries exactly the name/value pairs of the
\* inbound query, each value of a repeated name included, and the configured
\* extra headers and nothing of the inbound request headers.
C7_QueryForwardedUnchanged ==
    \A k \in DOMAIN outbound :
        LET call == outbound[k]
            req == request[call.inv].v
        IN  /\ ParamPairs(call.params) = {req.query[j] : j \in DOMAIN req.query}
            /\ Cardinality(DOMAIN call.params) = Len(req.query)
            /\ call.headers = OrNone(extra_headers[call.inv].v)
            /\ call.headers.some =>
                  DOMAIN call.headers.v \cap DOMAIN req.headers = {}

-----------------------------------------------------------------------------
(* C8 *)

\* C8: every invocation that has ended has logged exactly one record, and
\* the record is there when the response is.
C8_ExactlyOneRecord ==
    \A i \in Invocations :
        /\ Done(i) => Len(LogOf(i)) = 1
        /\ response[i].some => Len(LogOf(i)) = 1

-----------------------------------------------------------------------------
(* C9 *)

\* C9: an invocation whose log record could not be written has returned the
\* response its path prescribes: 500 with the configuration error's message,
\* 502 with "Upstream request failed", or the upstream's status and content.
C9_LoggingFailureKeepsResponse ==
    \A i \in Invocations :
        (Done(i) /\ LogOf(i) # <<>>) =>
            LET rec == LogOf(i)[1]
            IN  ~rec.written =>
                    /\ ~escaped[i].some
                    /\ response[i].some
                    /\ IF GotResponse(i)
                       THEN /\ response[i].v.status = upstream[i].v.status_code
                            /\ response[i].v.body =
                                  [kind |-> "raw", content |-> upstream[i].v.content]
                       ELSE IF GotException(i)
                       THEN response[i].v =
                                ErrorResponse(502, "Upstream request failed")
                       ELSE response[i].v =
                                ErrorResponse(500, rec.payload.error_message)

\* An upstream status was relayed although the record of it was not written.
C9_Witness ==
    \E i \in Invocations :
        /\ Done(i)
        /\ GotResponse(i)
        /\ Len(LogOf(i)) = 1
        /\ ~LogOf(i)[1].written
        /\ response[i].some
        /\ response[i].v.status = 404

-----------------------------------------------------------------------------
(* C10 *)

\* Invocation i passed both configuration checks.
PassedChecks(i) ==
    /\ pc[i] # "idle"
    /\ ~Falsy(env.SIT3_URL)
    /\ ~HeadersFailToLoad(env.SIT3_HEADERS_JSON)

\* The record of invocation i speaks of i's own request, of the configured
\* target and of i's own upstream result.
OwnRecord(i, rec) ==
    /\ rec.payload.method = request[i].v.method
    /\ rec.payload.path = request[i].v.path
    /\ rec.payload.query_params = flat_query(entry, request[i].v.query)
    /\ rec.payload.request_headers = request[i].v.headers
    /\ rec.payload.target_url =
          IF rec.payload.event = "trigger_error" THEN env.SIT3_URL ELSE env.SIT3_URL.v
    /\ GotResponse(i) =>
          IF rec.payload.event = "trigger_error"
          THEN rec.payload.status_code = upstream[i].v.status_code
          ELSE rec.payload.upstream_status = upstream[i].v.status_code
    /\ GotException(i) =>
          /\ rec.payload.error_type = upstream[i].v.cls
          /\ rec.payload.error_message = upstream[i].v.message

\* C10: under every interleaving, an invocation issues at most one outbound
\* call, and exactly one if it passed both checks, so the calls issued are as
\* many as the invocations that passed; its response is for its own upstream
\* result, each record speaks of the invocation that logged it, and two
\* invocations with the same request and the same upstream result end with
\* the same response and the same record.
C10_OneCallAndOwnResult ==
    /\ \A i \in Invocations :
          /\ Len(CallsOf(i)) = IF PassedChecks(i) THEN 1 ELSE 0
          /\ \A k \in DOMAIN LogOf(i) : OwnRecord(i, LogOf(i)[k])
          /\ (Done(i) /\ GotResponse(i)) =>
                /\ response[i].some
                /\ response[i].v.status = upstream[i].v.status_code
                /\ response[i].v.body.content = upstream[i].v.content
    /\ Len(outbound) = Cardinality({i \in Invocations : PassedChecks(i)})
    /\ \A i, j \in Invocations :
          (Done(i) /\ Done(j) /\ request[i] = request[j] /\ upstream[i] = upstream[j]) =>
              /\ response[i] = response[j]
              /\ escaped[i] = escaped[j]
              /\ Len(LogOf(i)) = Len(LogOf(j))
              /\ \A k \in DOMAIN LogOf(i) :
                    /\ LogOf(i)[k].payload = LogOf(j)[k].payload
                    /\ LogOf(i)[k].level = LogOf(j)[k].level

\* Two invocations were in flight together and ended in the other order:
\* the first to call is the last to log, and their upstream results differ.
C10_Witness ==
    /\ Len(outbound) = 2
    /\ Len(log) = 2
    /\ outbound[1].inv # log[1].inv
    /\ Done(outbound[1].inv)
    /\ Done(log[1].inv)
    /\ GotResponse(outbound[1].inv)
    /\ GotResponse(log[1].inv)
    /\ upstream[outbound[1].inv] # upstream[log[1].inv]
    /\ request[outbound[1].inv] # request[log[1].inv]

=============================================================================
